---- MODULE Spec2Model ----
(***************************************************************************)
(* Model of sme_block_bulk_telegram.py: one run of main() that resolves    *)
(* the SME symbol universes of NSE and BSE, fetches block/bulk deals,      *)
(* filters them, formats a report and posts it to Telegram.                *)
(*                                                                         *)
(* Text is a sequence of one-character strings, so that strip(), upper(),  *)
(* str() and int() are computed character by character.  A JSON value is a *)
(* tagged record; a dict is a function from keys to JSON values.           *)
(***************************************************************************)
EXTENDS Integers, Sequences, FiniteSets, TLC

VARIABLES
    pc,             \* position of main(): start, config, nse_warmup, ... , exited, crashed
    env,            \* the process environment: the variables that are set -> their Text
    token, chat_id, \* main: stripped credentials
    lookback_days, max_rows, from_date, to_date,   \* main: parsed configuration
    notes,          \* main: warning list
    nse_sme, bse_sme,       \* main: symbol universes
    nse_rows, bse_rows,     \* main: rows handed to format_rows
    qi,             \* index of the next candidate URL of the running fetch loop
    rows,           \* local `rows` of fetch_nse_deals / fetch_bse_deals
    out,            \* local `out` of fetch_bse_sme_symbols
    cursor, all_rows,       \* main: BSE day loop
    message,        \* main: composed message (sequence of lines)
    netlog,         \* every network request issued so far, in order
    resp,           \* what the latest request came back with
    stdio,          \* what was printed (stderr / stdout)
    exit_code,      \* return value of main()
    call            \* argument/result record of a stand-alone function call

vars == << pc, env, token, chat_id, lookback_days, max_rows, from_date, to_date,
           notes, nse_sme, bse_sme, nse_rows, bse_rows, qi, rows, out, cursor,
           all_rows, message, netlog, resp, stdio, exit_code, call >>

-----------------------------------------------------------------------------
(* Bounds of the model *)

\* largest LOOKBACK_DAYS value tried (the BSE loop runs that many days)
MaxLookback == 2
\* longest record list handed to filter_sme / format_rows on their own
MaxLen == 3
\* largest MAX_ROWS_PER_SECTION tried on format_rows on its own
MaxRowsTried == 3

-----------------------------------------------------------------------------
(* Text *)

Lower == << "a","b","c","d","e","f","g","h","i","j","k","l","m",
            "n","o","p","q","r","s","t","u","v","w","x","y","z" >>
Capital == << "A","B","C","D","E","F","G","H","I","J","K","L","M",
              "N","O","P","Q","R","S","T","U","V","W","X","Y","Z" >>
Digits == << "0","1","2","3","4","5","6","7","8","9" >>

IsSpace(c) == c \in {" ", "\t", "\n"}

\* str.upper(), one character
UpperChar(c) ==
    IF \E i \in 1..26 : Lower[i] = c
    THEN Capital[CHOOSE i \in 1..26 : Lower[i] = c]
    ELSE c

\* str.upper()
Upper(s) == [i \in 1..Len(s) |-> UpperChar(s[i])]

RECURSIVE LStrip(_)
LStrip(s) == IF s # << >> /\ IsSpace(Head(s)) THEN LStrip(Tail(s)) ELSE s

RECURSIVE RStrip(_)
RStrip(s) ==
    IF s # << >> /\ IsSpace(s[Len(s)]) THEN RStrip(SubSeq(s, 1, Len(s) - 1)) ELSE s

\* str.strip()
Strip(s) == RStrip(LStrip(s))

RECURSIVE NatText(_)
NatText(n) ==
    IF n < 10 THEN << Digits[n + 1] >> ELSE NatText(n \div 10) \o << Digits[(n % 10) + 1] >>

\* str(n) / f"{n}" of an int
IntText(n) == IF n < 0 THEN << "-" >> \o NatText(0 - n) ELSE NatText(n)

IsDigit(c) == \E i \in 1..10 : Digits[i] = c
DigitVal(c) == (CHOOSE i \in 1..10 : Digits[i] = c) - 1

RECURSIVE DigitsValue(_)
DigitsValue(s) ==
    IF s = << >> THEN 0 ELSE 10 * DigitsValue(SubSeq(s, 1, Len(s) - 1)) + DigitVal(s[Len(s)])

\* int(text): surrounding whitespace and one sign are accepted, then digits
\* only; anything else raises ValueError
ParseInt(s) ==
    LET t == Strip(s)
        signed == t # << >> /\ Head(t) \in {"+", "-"}
        d == IF signed THEN Tail(t) ELSE t
    IN  IF d # << >> /\ \A i \in 1..Len(d) : IsDigit(d[i])
        THEN [ok |-> TRUE,
              val |-> IF signed /\ Head(t) = "-" THEN 0 - DigitsValue(d) ELSE DigitsValue(d)]
        ELSE [ok |-> FALSE, val |-> 0]

(* String literals of the program *)
T_NSE == << "N","S","E" >>
T_BSE == << "B","S","E" >>
T_bulk == << "b","u","l","k" >>
T_block == << "b","l","o","c","k" >>
T_RowPrefix == << "-"," " >>
T_Bar == << " ","|"," " >>
T_Qty == << " ","|"," ","Q","t","y",":"," " >>
T_Px == << " ","|"," ","P","x",":"," " >>
T_NoDeals == << "-"," ","N","o"," ","S","M","E"," ","d","e","a","l","s"," ","f","o","u","n","d" >>
T_AndPrefix == << "-"," ",".",".","."," ","a","n","d"," " >>
T_More == << " ","m","o","r","e" >>
T_HeaderPrefix == << "S","M","E"," ","b","l","o","c","k","/","b","u","l","k"," ","s","c","a","n"," ","(" >>
T_To == << " ","t","o"," " >>
T_HeaderSuffix == << ")" >>
T_Warnings == << "W","a","r","n","i","n","g","s",":" >>
T_NseWarning == << "N","S","E"," ","f","e","t","c","h"," ","w","a","r","n","i","n","g",":"," " >>
T_BseWarning == << "B","S","E"," ","f","e","t","c","h"," ","w","a","r","n","i","n","g",":"," " >>
T_None == << "N","o","n","e" >>
T_SetCreds == << "S","e","t"," ","T","E","L","E","G","R","A","M","_","B","O","T","_","T","O","K","E","N"," ","a","n","d"," ","T","E","L","E","G","R","A","M","_","C","H","A","T","_","I","D"," ","f","i","r","s","t","." >>
T_Sent == << "T","e","l","e","g","r","a","m"," ","u","p","d","a","t","e"," ","s","e","n","t"," ","s","u","c","c","e","s","s","f","u","l","l","y","." >>
T_Default1 == << "1" >>
T_Default20 == << "2","0" >>

-----------------------------------------------------------------------------
(* Dates (datetime.date) *)

IsLeap(y) == (y % 4 = 0 /\ y % 100 # 0) \/ y % 400 = 0

DaysInMonth(y, m) ==
    IF m = 2 THEN (IF IsLeap(y) THEN 29 ELSE 28)
    ELSE IF m \in {4, 6, 9, 11} THEN 30 ELSE 31

\* date + timedelta(days=1)
NextDay(dt) ==
    IF dt.d < DaysInMonth(dt.y, dt.m) THEN [dt EXCEPT !.d = dt.d + 1]
    ELSE IF dt.m < 12 THEN [y |-> dt.y, m |-> dt.m + 1, d |-> 1]
    ELSE [y |-> dt.y + 1, m |-> 1, d |-> 1]

PrevDay(dt) ==
    IF dt.d > 1 THEN [dt EXCEPT !.d = dt.d - 1]
    ELSE IF dt.m > 1 THEN [y |-> dt.y, m |-> dt.m - 1, d |-> DaysInMonth(dt.y, dt.m - 1)]
    ELSE [y |-> dt.y - 1, m |-> 12, d |-> 31]

RECURSIVE MinusDays(_, _)
\* date - timedelta(days=n), n >= 0
MinusDays(dt, n) == IF n = 0 THEN dt ELSE MinusDays(PrevDay(dt), n - 1)

\* cursor <= to_date
DateLE(a, b) ==
    \/ a.y < b.y
    \/ a.y = b.y /\ a.m < b.m
    \/ a.y = b.y /\ a.m = b.m /\ a.d <= b.d

RECURSIVE ZeroPad(_, _)
ZeroPad(s, w) == IF Len(s) >= w THEN s ELSE ZeroPad(<< "0" >> \o s, w)

\* date.isoformat(): YYYY-MM-DD
IsoFormat(dt) ==
    ZeroPad(NatText(dt.y), 4) \o << "-" >> \o ZeroPad(NatText(dt.m), 2)
        \o << "-" >> \o ZeroPad(NatText(dt.d), 2)

\* strftime("%d-%m-%Y")
StrfDmy(dt) ==
    ZeroPad(NatText(dt.d), 2) \o << "-" >> \o ZeroPad(NatText(dt.m), 2)
        \o << "-" >> \o ZeroPad(NatText(dt.y), 4)

\* strftime("%Y%m%d")
StrfYmd(dt) ==
    ZeroPad(NatText(dt.y), 4) \o ZeroPad(NatText(dt.m), 2) \o ZeroPad(NatText(dt.d), 2)

-----------------------------------------------------------------------------
(* JSON values as json.loads returns them *)

Null == [t |-> "null"]
JStr(s) == [t |-> "str", s |-> s]
JNum(n) == [t |-> "num", n |-> n]
JList(l) == [t |-> "list", l |-> l]
JDict(d) == [t |-> "dict", d |-> d]
JBool(b) == [t |-> "bool", b |-> b]

EmptyDict == [k \in {} |-> Null]

\* isinstance(v, dict) / isinstance(v, list)
IsDict(v) == v.t = "dict"
IsList(v) == v.t = "list"

\* dict.get(key): the value, or None when the key is absent
Get(v, key) == IF key \in DOMAIN v.d THEN v.d[key] ELSE Null

\* truth value of a Python object, as `or` tests it
Truthy(v) ==
    CASE v.t = "null" -> FALSE
      [] v.t = "bool" -> v.b
      [] v.t = "str"  -> v.s # << >>
      [] v.t = "num"  -> v.n # 0
      [] v.t = "list" -> v.l # << >>
      [] v.t = "dict" -> DOMAIN v.d # {}

\* str(v) for the scalar values deal entries carry
PyStr(v) ==
    CASE v.t = "null" -> T_None
      [] v.t = "str"  -> v.s
      [] v.t = "num"  -> IntText(v.n)

RECURSIVE OrChain(_, _, _)
\* item.get(k1) or item.get(k2) or ... or last
OrChain(item, keys, last) ==
    IF keys = << >> THEN last
    ELSE IF Truthy(Get(item, Head(keys))) THEN Get(item, Head(keys))
    ELSE OrChain(item, Tail(keys), last)

\* Field without the trailing `or ""`: str(None) is "None"
Field_nodefault(item, keys, last) == Strip(PyStr(OrChain(item, keys, Null)))

\* str(item.get(k1) or ... or last).strip()
Field(item, keys, last) == Strip(PyStr(OrChain(item, keys, last)))

-----------------------------------------------------------------------------
(* Record normalisation *)

DealRow(exchange, deal_type, symbol, date, quantity, price, buyer, seller) ==
    [exchange |-> exchange, deal_type |-> deal_type, symbol |-> symbol, date |-> date,
     quantity |-> quantity, price |-> price, buyer |-> buyer, seller |-> seller]

FieldNames == {"symbol", "date", "quantity", "price", "buyer", "seller"}

\* parse_json_rows: the candidate keys of each field, in order
NseFieldKeys ==
    [symbol   |-> << "symbol", "scripName", "Security" >>,
     date     |-> << "date", "dt", "DealDate" >>,
     quantity |-> << "quantityTraded", "qty", "Quantity" >>,
     price    |-> << "pricePerShare", "price", "Price" >>,
     buyer    |-> << "clientName", "buyerName", "Buyer" >>,
     seller   |-> << "sellerName", "Seller" >>]

\* NseItemRow with the symbol not stripped
NseItemRow_nostrip(item, exchange, deal_type) ==
    DealRow(exchange, deal_type,
            PyStr(OrChain(item, NseFieldKeys.symbol, JStr(<< >>))),
            Field(item, NseFieldKeys.date, JStr(<< >>)),
            Field(item, NseFieldKeys.quantity, JStr(<< >>)),
            Field(item, NseFieldKeys.price, JStr(<< >>)),
            Field(item, NseFieldKeys.buyer, JStr(<< >>)),
            Field(item, NseFieldKeys.seller, JStr(<< >>)))

\* the DealRow parse_json_rows builds from one mapping entry
NseItemRow(item, exchange, deal_type) ==
    DealRow(exchange, deal_type,
            Field(item, NseFieldKeys.symbol, JStr(<< >>)),
            Field(item, NseFieldKeys.date, JStr(<< >>)),
            Field(item, NseFieldKeys.quantity, JStr(<< >>)),
            Field(item, NseFieldKeys.price, JStr(<< >>)),
            Field(item, NseFieldKeys.buyer, JStr(<< >>)),
            Field(item, NseFieldKeys.seller, JStr(<< >>)))

\* A call that may raise returns [raised, exc, val]
Raise(exc) == [raised |-> TRUE, exc |-> exc, val |-> << >>]
Return(val) == [raised |-> FALSE, exc |-> << >>, val |-> val]

\* str(AttributeError) of `payload.get` on a value that is no dict
NoGetText(v) ==
    LET ty == CASE v.t = "list" -> << "l","i","s","t" >>
                [] v.t = "str"  -> << "s","t","r" >>
                [] v.t = "num"  -> << "i","n","t" >>
                [] v.t = "null" -> << "N","o","n","e","T","y","p","e" >>
    IN  << "'" >> \o ty \o << "'"," ","o","b","j","e","c","t"," ","h","a","s"," ","n","o",
           " ","a","t","t","r","i","b","u","t","e"," ","'","g","e","t","'" >>

parse_json_rows(payload, exchange, deal_type) ==
    IF ~IsDict(payload) THEN Raise(NoGetText(payload))
    ELSE LET data == Get(payload, "data")
         IN  IF ~IsList(data) THEN Return(<< >>)
             ELSE LET items == SelectSeq(data.l, IsDict)
                  IN  Return([i \in 1..Len(items) |-> NseItemRow(items[i], exchange, deal_type)])

\* fetch_bse_deals: the candidate keys of each field, in order
BseFieldKeys ==
    [symbol   |-> << "Security", "scripname", "ScripName" >>,
     date     |-> << "Date", "DealDate" >>,
     quantity |-> << "Qty", "Quantity" >>,
     price    |-> << "Price", "DealPrice" >>,
     buyer    |-> << "BuyerName", "ClientName" >>,
     seller   |-> << "SellerName" >>]

\* the DealRow fetch_bse_deals builds from one mapping entry
BseItemRow(item, deal_type, as_on) ==
    DealRow(T_BSE, deal_type,
            Field(item, BseFieldKeys.symbol, JStr(<< >>)),
            Field(item, BseFieldKeys.date, JStr(IsoFormat(as_on))),
            Field(item, BseFieldKeys.quantity, JStr(<< >>)),
            Field(item, BseFieldKeys.price, JStr(<< >>)),
            Field(item, BseFieldKeys.buyer, JStr(<< >>)),
            Field(item, BseFieldKeys.seller, JStr(<< >>)))

\* the part of fetch_bse_deals after json.loads, for one candidate
bse_payload_rows(payload, deal_type, as_on) ==
    IF ~IsDict(payload) THEN Raise(NoGetText(payload))
    ELSE LET table == OrChain(payload, << "Table", "Data" >>, JList(<< >>))
         IN  IF ~IsList(table) THEN Return(<< >>)
             ELSE LET items == SelectSeq(table.l, IsDict)
                  IN  Return([i \in 1..Len(items) |-> BseItemRow(items[i], deal_type, as_on)])

RECURSIVE Uniq(_)
\* {key(r): r for r in rows}.values(): one row per full field tuple, first-seen order
Uniq(rs) ==
    IF rs = << >> THEN << >>
    ELSE LET init == Uniq(SubSeq(rs, 1, Len(rs) - 1))
             last == rs[Len(rs)]
         IN  IF \E i \in 1..Len(init) : init[i] = last THEN init ELSE Append(init, last)

-----------------------------------------------------------------------------
(* Symbol universes *)

\* row.get(k1) or row.get(k2) or "" on a csv.DictReader row (values are text)
CsvGet(row, keys) ==
    LET present == SelectSeq(keys, LAMBDA k : k \in DOMAIN row /\ row[k] # << >>)
    IN  IF present = << >> THEN << >> ELSE row[Head(present)]

RECURSIVE nse_sme_symbols(_)
\* the loop of fetch_nse_sme_symbols over the rows of EQUITY_L.csv
nse_sme_symbols(csvrows) ==
    IF csvrows = << >> THEN {}
    ELSE LET row == Head(csvrows)
             series == Upper(Strip(CsvGet(row, << " SERIES", "SERIES" >>)))
             sym == Upper(Strip(CsvGet(row, << "SYMBOL" >>)))
         IN  (IF series \in { << "S","M" >>, << "S","T" >> } /\ sym # << >> THEN {sym} ELSE {})
                 \cup nse_sme_symbols(Tail(csvrows))

\* symbols of one list value of the BSE scrip payload
BseListSymbols(vals) ==
    IF ~IsList(vals) THEN {}
    ELSE LET syms == { Upper(Field(vals.l[i], << "SecurityId", "scrip_cd", "symbol" >>, JStr(<< >>))) :
                         i \in { j \in 1..Len(vals.l) : IsDict(vals.l[j]) } }
         IN  syms \ { << >> }

\* the part of fetch_bse_sme_symbols after json.loads, for one URL
bse_payload_symbols(payload) ==
    IF ~IsDict(payload) THEN Raise(NoGetText(payload))
    ELSE Return(BseListSymbols(Get(payload, "Table")) \cup BseListSymbols(Get(payload, "Data"))
                    \cup BseListSymbols(Get(payload, "table")))

-----------------------------------------------------------------------------
(* Filter and report *)

\* filter_sme where an empty universe filters everything out
filter_sme_strict(rs, symbols) == SelectSeq(rs, LAMBDA r : Upper(r.symbol) \in symbols)

\* filter_sme comparing the symbol as it is, not uppercased
filter_sme_exact(rs, symbols) ==
    IF symbols = {} THEN rs
    ELSE SelectSeq(rs, LAMBDA r : r.symbol \in symbols)

filter_sme(rs, symbols) ==
    IF symbols = {} THEN rs
    ELSE SelectSeq(rs, LAMBDA r : Upper(r.symbol) \in symbols)

\* rows[:n]
SliceTo(rs, n) ==
    LET stop == IF n < 0 THEN (IF Len(rs) + n > 0 THEN Len(rs) + n ELSE 0)
                ELSE (IF n < Len(rs) THEN n ELSE Len(rs))
    IN  SubSeq(rs, 1, stop)

\* one "- date | type | symbol | Qty: q | Px: p" line, as its fragments
RowLine(r) ==
    << T_RowPrefix, r.date, T_Bar, r.deal_type, T_Bar, r.symbol, T_Qty, r.quantity, T_Px, r.price >>

\* format_rows, as the sequence of lines of the string it returns; a line is
\* the sequence of the fragments the f-string concatenates
format_rows(title, rs, maxrows) ==
    IF rs = << >> THEN << << title >>, << T_NoDeals >> >>
    ELSE LET shown == SliceTo(rs, maxrows)
             body == [i \in 1..Len(shown) |-> RowLine(shown[i])]
             more == IF Len(rs) > maxrows
                     THEN << << T_AndPrefix, IntText(Len(rs) - maxrows), T_More >> >>
                     ELSE << >>
         IN  << << title >> >> \o body \o more

\* the message main composes, as its sequence of lines
compose_message(from, to, nrows, brows, maxrows, ns) ==
    LET header == << T_HeaderPrefix, IsoFormat(from), T_To, IsoFormat(to), T_HeaderSuffix >>
        warn == IF ns = << >> THEN << >>
                ELSE << << >>, << T_Warnings >> >> \o [i \in 1..Len(ns) |-> << T_RowPrefix >> \o ns[i]]
    IN  << header, << >> >> \o format_rows(T_NSE, nrows, maxrows) \o << << >> >>
            \o format_rows(T_BSE, brows, maxrows) \o warn

-----------------------------------------------------------------------------
(* The state of main() as one record, and the steps of main() as functions  *)
(* from state to state.  A step ends at the next network request.           *)

Cur ==
    [pc |-> pc, env |-> env, token |-> token, chat_id |-> chat_id,
     lookback_days |-> lookback_days, max_rows |-> max_rows,
     from_date |-> from_date, to_date |-> to_date, notes |-> notes,
     nse_sme |-> nse_sme, bse_sme |-> bse_sme, nse_rows |-> nse_rows,
     bse_rows |-> bse_rows, qi |-> qi, rows |-> rows, out |-> out,
     cursor |-> cursor, all_rows |-> all_rows, message |-> message,
     netlog |-> netlog, resp |-> resp, stdio |-> stdio, exit_code |-> exit_code]

Becomes(S) ==
    /\ pc' = S.pc /\ env' = S.env /\ token' = S.token /\ chat_id' = S.chat_id
    /\ lookback_days' = S.lookback_days /\ max_rows' = S.max_rows
    /\ from_date' = S.from_date /\ to_date' = S.to_date /\ notes' = S.notes
    /\ nse_sme' = S.nse_sme /\ bse_sme' = S.bse_sme /\ nse_rows' = S.nse_rows
    /\ bse_rows' = S.bse_rows /\ qi' = S.qi /\ rows' = S.rows /\ out' = S.out
    /\ cursor' = S.cursor /\ all_rows' = S.all_rows /\ message' = S.message
    /\ netlog' = S.netlog /\ resp' = S.resp /\ stdio' = S.stdio
    /\ exit_code' = S.exit_code

NoDate == [y |-> 1, m |-> 1, d |-> 1]

\* os.getenv(name, default)
Getenv(e, name, default) == IF name \in DOMAIN e THEN e[name] ELSE default

\* a network request: what it asks for
Request(ep, arg) == [ep |-> ep, arg |-> arg]

\* the request is issued and r comes back
Asked(S, ep, arg, r) == [S EXCEPT !.netlog = Append(@, Request(ep, arg)), !.resp = r]

\* what a request comes back with: a transport error, a body json.loads
\* rejects, a body json.loads accepts, or (for the CSV download) the rows
\* csv.DictReader yields
NetErr(msg) == [t |-> "neterr", msg |-> msg, json |-> Null, csv |-> << >>]
BadJson == [t |-> "badjson", msg |-> << >>, json |-> Null, csv |-> << >>]
Body(v) == [t |-> "json", msg |-> << >>, json |-> v, csv |-> << >>]
CsvBody(rs) == [t |-> "csv", msg |-> << >>, json |-> Null, csv |-> rs]
NoResponse == [t |-> "none", msg |-> << >>, json |-> Null, csv |-> << >>]

\* an uncaught exception leaves main(): traceback, exit status 1
Crash(S) == [S EXCEPT !.pc = "crashed", !.exit_code = {1}]

\* check_config without the strip() of the credentials
check_config_nostrip(S) ==
    LET tok == Getenv(S.env, "TELEGRAM_BOT_TOKEN", << >>)
        chat == Getenv(S.env, "TELEGRAM_CHAT_ID", << >>)
        S1 == [S EXCEPT !.token = tok, !.chat_id = chat]
    IN  IF tok = << >> \/ chat = << >>
        THEN [S1 EXCEPT !.stdio = Append(@, T_SetCreds), !.exit_code = {2}, !.pc = "exited"]
        ELSE [S1 EXCEPT !.pc = "config"]

\* main, lines 226-230
check_config(S) ==
    LET tok == Strip(Getenv(S.env, "TELEGRAM_BOT_TOKEN", << >>))
        chat == Strip(Getenv(S.env, "TELEGRAM_CHAT_ID", << >>))
        S1 == [S EXCEPT !.token = tok, !.chat_id = chat]
    IN  IF tok = << >> \/ chat = << >>
        THEN [S1 EXCEPT !.stdio = Append(@, T_SetCreds), !.exit_code = {2}, !.pc = "exited"]
        ELSE [S1 EXCEPT !.pc = "config"]

\* main, lines 232-240
parse_config(S, today) ==
    LET lb == ParseInt(Getenv(S.env, "LOOKBACK_DAYS", T_Default1))
        mr == ParseInt(Getenv(S.env, "MAX_ROWS_PER_SECTION", T_Default20))
    IN  IF ~lb.ok THEN Crash(S)
        ELSE IF ~mr.ok THEN Crash([S EXCEPT !.lookback_days = lb.val])
        ELSE [S EXCEPT !.lookback_days = lb.val, !.max_rows = mr.val,
                       !.to_date = today,
                       !.from_date = MinusDays(today, (IF lb.val > 1 THEN lb.val ELSE 1) - 1),
                       !.notes = << >>, !.nse_rows = << >>, !.bse_rows = << >>,
                       !.pc = "nse_warmup"]

\* main, line 251: the BSE block starts
EnterBse(S) == [S EXCEPT !.pc = "bse_symbols", !.qi = 1, !.out = {}, !.rows = << >>]

\* main, lines 247-248
NseFailed(S, msg) == EnterBse([S EXCEPT !.notes = Append(@, << T_NseWarning, msg >>)])

\* main, lines 260-261, then on to the message
BseFailed(S, msg) ==
    [S EXCEPT !.notes = Append(@, << T_BseWarning, msg >>), !.pc = "send",
              !.rows = << >>, !.out = {}]

\* build_nse_opener: the warm-up request
build_nse_opener(S, r) ==
    LET S1 == Asked(S, "nse_warmup", << >>, r)
    IN  IF r.t = "neterr" THEN NseFailed(S1, r.msg)
        ELSE [S1 EXCEPT !.pc = "nse_symbols"]

\* fetch_nse_sme_symbols: the EQUITY_L.csv download and its scan
fetch_nse_sme_symbols(S, r) ==
    LET S1 == Asked(S, "nse_equity_csv", << >>, r)
    IN  IF r.t = "neterr" THEN NseFailed(S1, r.msg)
        ELSE [S1 EXCEPT !.nse_sme = nse_sme_symbols(r.csv),
                        !.pc = "nse_deals", !.qi = 1, !.rows = << >>]

\* fetch_nse_deals: the candidate list
NseCandidates ==
    << [deal_type |-> T_bulk, ep |-> "nse_bulk_deals"],
       [deal_type |-> T_block, ep |-> "nse_block_deals"],
       [deal_type |-> T_bulk, ep |-> "nse_short_bulk_deals"],
       [deal_type |-> T_block, ep |-> "nse_short_block_deals"] >>

\* fetch_nse_deals: one pass of the loop over the candidates; after the last
\* one the de-duplication, and filter_sme in main
nse_deal_query(S, r) ==
    LET c == NseCandidates[S.qi]
        arg == StrfDmy(S.from_date) \o << "&" >> \o StrfDmy(S.to_date)
        S1 == Asked(S, c.ep, arg, r)
        p == IF r.t = "json" THEN parse_json_rows(r.json, T_NSE, Upper(c.deal_type))
             ELSE Return(<< >>)
        got == S.rows \o p.val
    IN  IF p.raised THEN NseFailed(S1, p.exc)
        ELSE IF S.qi < Len(NseCandidates) THEN [S1 EXCEPT !.rows = got, !.qi = S.qi + 1]
        ELSE EnterBse([S1 EXCEPT !.nse_rows = filter_sme(Uniq(got), S.nse_sme)])

\* fetch_bse_sme_symbols: the URL list
BseSymbolUrls == << "bse_scrips_group", "bse_scrips_Group" >>

\* fetch_bse_sme_symbols returns: main goes on to the day loop
BseSymbolsReturn(S, syms) ==
    [S EXCEPT !.bse_sme = syms, !.out = {}, !.cursor = S.from_date, !.all_rows = << >>,
              !.qi = 1, !.rows = << >>, !.pc = "bse_deals"]

\* bse_symbols_query with the request outside the try block
bse_symbols_query_hardfail(S, r) ==
    LET S1 == Asked(S, BseSymbolUrls[S.qi], << >>, r)
        p == IF r.t = "json" THEN bse_payload_symbols(r.json) ELSE Return({})
        got == S.out \cup p.val
    IN  IF r.t = "neterr" THEN BseFailed(S1, r.msg)
        ELSE IF p.raised THEN BseFailed(S1, p.exc)
        ELSE IF r.t = "json" /\ got # {} THEN BseSymbolsReturn(S1, got)
        ELSE IF S.qi < Len(BseSymbolUrls) THEN [S1 EXCEPT !.out = got, !.qi = S.qi + 1]
        ELSE BseSymbolsReturn(S1, got)

\* fetch_bse_sme_symbols: one pass of the loop over the URLs
bse_symbols_query(S, r) ==
    LET S1 == Asked(S, BseSymbolUrls[S.qi], << >>, r)
        p == IF r.t = "json" THEN bse_payload_symbols(r.json) ELSE Return({})
        got == S.out \cup p.val
    IN  IF p.raised THEN BseFailed(S1, p.exc)
        ELSE IF r.t = "json" /\ got # {} THEN BseSymbolsReturn(S1, got)
        ELSE IF S.qi < Len(BseSymbolUrls) THEN [S1 EXCEPT !.out = got, !.qi = S.qi + 1]
        ELSE BseSymbolsReturn(S1, got)

\* fetch_bse_deals: the candidate list
BseCandidates ==
    << [deal_type |-> T_bulk, ep |-> "bse_bulk_deals"],
       [deal_type |-> T_block, ep |-> "bse_block_deals"] >>

\* fetch_bse_deals: one pass of the loop over the candidates for day `cursor`;
\* after the last one, main's day loop and, past to_date, filter_sme
bse_deal_query(S, r) ==
    LET c == BseCandidates[S.qi]
        S1 == Asked(S, c.ep, StrfYmd(S.cursor), r)
        p == IF r.t = "json" THEN bse_payload_rows(r.json, Upper(c.deal_type), S.cursor)
             ELSE Return(<< >>)
        got == S.rows \o p.val
        all == S.all_rows \o got
        next == NextDay(S.cursor)
    IN  IF p.raised THEN BseFailed(S1, p.exc)
        ELSE IF S.qi < Len(BseCandidates) THEN [S1 EXCEPT !.rows = got, !.qi = S.qi + 1]
        ELSE IF DateLE(next, S.to_date)
             THEN [S1 EXCEPT !.all_rows = all, !.cursor = next, !.rows = << >>, !.qi = 1]
             ELSE [S1 EXCEPT !.all_rows = all, !.cursor = next, !.rows = << >>, !.qi = 1,
                             !.bse_rows = filter_sme(all, S.bse_sme), !.pc = "send"]

\* main, lines 263-271, with send_telegram_message
send_telegram_message(S, r) ==
    LET msg == compose_message(S.from_date, S.to_date, S.nse_rows, S.bse_rows,
                               S.max_rows, S.notes)
        S1 == [Asked(S, "telegram_sendMessage", S.chat_id, r) EXCEPT !.message = msg]
    IN  IF r.t = "json" /\ IsDict(r.json) /\ Truthy(Get(r.json, "ok"))
        THEN [S1 EXCEPT !.stdio = Append(@, T_Sent), !.exit_code = {0}, !.pc = "exited"]
        ELSE Crash(S1)

-----------------------------------------------------------------------------
(* Inputs: the environment, the clock and what the network answers *)

EnvNames == {"TELEGRAM_BOT_TOKEN", "TELEGRAM_CHAT_ID", "LOOKBACK_DAYS", "MAX_ROWS_PER_SECTION"}

\* each choice is the set of values the variable has: none (unset) or one
TokenVals == { {}, { << " " >> }, { << " ","t" >> } }
ChatVals == { {}, { << "7" >> } }
LookbackVals == { {}, { << "x" >> } } \cup { { IntText(n) } : n \in {0} \cup 2..MaxLookback }
MaxRowsVals == { {}, { << "x" >> }, { << " ","1" >> }, { << "-","1" >> } }

EnvOf(tok, chat, lb, mr) ==
    LET v == [n \in EnvNames |->
                CASE n = "TELEGRAM_BOT_TOKEN" -> tok
                  [] n = "TELEGRAM_CHAT_ID" -> chat
                  [] n = "LOOKBACK_DAYS" -> lb
                  [] n = "MAX_ROWS_PER_SECTION" -> mr]
    IN  [n \in { m \in EnvNames : v[m] # {} } |-> CHOOSE x \in v[n] : TRUE]

EnvSet ==
    { EnvOf(tok, chat, lb, mr) :
        tok \in TokenVals, chat \in ChatVals, lb \in LookbackVals, mr \in MaxRowsVals }

\* _today()
TodayVals == { [y |-> 2024, m |-> 3, d |-> 1], [y |-> 2025, m |-> 1, d |-> 1] }

T_timedout == << "t","i","m","e","d"," ","o","u","t" >>

NseItemAbc ==
    JDict([symbol |-> JStr(<< " ","a","b","c" >>), date |-> JStr(<< "0","1","-","M","a","r" >>),
           quantityTraded |-> JNum(500), pricePerShare |-> JStr(<< "1","2" >>),
           clientName |-> JStr(<< "K" >>)])
NseItemXyz ==
    JDict([scripName |-> JStr(<< "X","Y","Z" >>), qty |-> JStr(<< "7" >>), Seller |-> JStr(<< "L" >>)])
NsePayloadA == JDict([data |-> JList(<< NseItemAbc, NseItemXyz, JStr(<< "j" >>) >>)])
NsePayloadB == JDict([data |-> JList(<< NseItemAbc >>)])

WarmupResponses == { NetErr(T_timedout), CsvBody(<< >>) }

CsvListing ==
    << (" SERIES" :> << " ","s","m" >>) @@ ("SYMBOL" :> << "A","b","c" >>),
       (" SERIES" :> << "E","Q" >>) @@ ("SYMBOL" :> << "X","Y","Z" >>) >>
CsvHtml == << ("<!DOCTYPE html>" :> << >>) >>
NseSymbolResponses == { NetErr(T_timedout), CsvBody(CsvListing), CsvBody(CsvHtml) }

NseDealResponses ==
    { NetErr(T_timedout), BadJson, Body(JList(<< >>)), Body(NsePayloadA), Body(NsePayloadB) }

BseScrips == JDict([Table |-> JList(<< JDict([SecurityId |-> JStr(<< "p","q" >>)]) >>)])
BseSymbolResponses ==
    { NetErr(T_timedout), Body(JList(<< >>)), Body(BseScrips), Body(JDict(EmptyDict)) }

BseItemPq ==
    JDict([Security |-> JStr(<< "p","q" >>), Qty |-> JNum(9), Price |-> JStr(<< "3" >>)])
BseItemMn ==
    JDict([scripname |-> JStr(<< "M","N" >>), Date |-> JStr(<< "D","1" >>),
           Quantity |-> JStr(<< "4" >>)])
BsePayload == JDict([Data |-> JList(<< BseItemPq, BseItemMn, BseItemMn, Null >>)])
BseDealResponses == { NetErr(T_timedout), Body(JList(<< >>)), Body(BsePayload) }

TelegramResponses ==
    { NetErr(T_timedout), BadJson, Body(JList(<< >>)),
      Body(JDict([ok |-> JBool(TRUE)])), Body(JDict([ok |-> JBool(FALSE)])) }

-----------------------------------------------------------------------------
(* One run of main() *)

NoCall == [fn |-> "none"]

MainStart(e) ==
    /\ pc = "start" /\ env = e
    /\ token = << >> /\ chat_id = << >>
    /\ lookback_days = 0 /\ max_rows = 0
    /\ from_date = NoDate /\ to_date = NoDate
    /\ notes = << >> /\ nse_sme = {} /\ bse_sme = {}
    /\ nse_rows = << >> /\ bse_rows = << >>
    /\ qi = 1 /\ rows = << >> /\ out = {}
    /\ cursor = NoDate /\ all_rows = << >>
    /\ message = << >> /\ netlog = << >> /\ resp = NoResponse
    /\ stdio = << >> /\ exit_code = {}

Init == (\E e \in EnvSet : MainStart(e)) /\ call = NoCall

CheckConfig == pc = "start" /\ Becomes(check_config(Cur)) /\ UNCHANGED call

ParseConfig ==
    pc = "config" /\ (\E today \in TodayVals : Becomes(parse_config(Cur, today)))
        /\ UNCHANGED call

BuildNseOpener ==
    pc = "nse_warmup" /\ (\E r \in WarmupResponses : Becomes(build_nse_opener(Cur, r)))
        /\ UNCHANGED call

FetchNseSmeSymbols ==
    pc = "nse_symbols" /\ (\E r \in NseSymbolResponses : Becomes(fetch_nse_sme_symbols(Cur, r)))
        /\ UNCHANGED call

FetchNseDeals ==
    pc = "nse_deals" /\ (\E r \in NseDealResponses : Becomes(nse_deal_query(Cur, r)))
        /\ UNCHANGED call

FetchBseSmeSymbols ==
    pc = "bse_symbols" /\ (\E r \in BseSymbolResponses : Becomes(bse_symbols_query(Cur, r)))
        /\ UNCHANGED call

FetchBseDeals ==
    pc = "bse_deals" /\ (\E r \in BseDealResponses : Becomes(bse_deal_query(Cur, r)))
        /\ UNCHANGED call

SendTelegramMessage ==
    pc = "send" /\ (\E r \in TelegramResponses : Becomes(send_telegram_message(Cur, r)))
        /\ UNCHANGED call

Next ==
    \/ CheckConfig
    \/ ParseConfig
    \/ BuildNseOpener
    \/ FetchNseSmeSymbols
    \/ FetchNseDeals
    \/ FetchBseSmeSymbols
    \/ FetchBseDeals
    \/ SendTelegramMessage

Spec == Init /\ [][Next]_vars

-----------------------------------------------------------------------------
(* The pure functions on their own: the arguments are drawn in the initial  *)
(* state, the one action applies the function.                              *)

mainvars == << pc, env, token, chat_id, lookback_days, max_rows, from_date, to_date,
               notes, nse_sme, bse_sme, nse_rows, bse_rows, qi, rows, out, cursor,
               all_rows, message, netlog, resp, stdio, exit_code >>

\* main() is not running
MainIdle == MainStart(EmptyDict)

SeqsUpTo(S, n) == UNION { [1..k -> S] : k \in 0..n }

SampleSymbols == { << "a","b" >>, << "A","B" >>, << "x" >> }
SampleRows ==
    { DealRow(T_NSE, Upper(T_bulk), s, << "d" >>, << "1" >>, << "2" >>, << >>, << >>) :
        s \in SampleSymbols }
SampleUniverses == SUBSET { << "A","B" >>, << "a","b" >>, << "X" >> }

InitFilter ==
    /\ MainIdle
    /\ \E rs \in SeqsUpTo(SampleRows, MaxLen), syms \in SampleUniverses :
          call = [fn |-> "filter_sme", rows |-> rs, symbols |-> syms,
                  done |-> FALSE, result |-> << >>]

CallFilterSme ==
    /\ ~call.done
    /\ call' = [call EXCEPT !.done = TRUE, !.result = filter_sme(call.rows, call.symbols)]
    /\ UNCHANGED mainvars

NextFilter == CallFilterSme

SpecFilter == InitFilter /\ [][NextFilter]_vars

InitFormat ==
    /\ MainIdle
    /\ \E rs \in SeqsUpTo(SampleRows, MaxLen), n \in -2..MaxRowsTried, title \in {T_NSE, T_BSE} :
          call = [fn |-> "format_rows", title |-> title, rows |-> rs, max_rows |-> n,
                  done |-> FALSE, result |-> << >>]

CallFormatRows ==
    /\ ~call.done
    /\ call' = [call EXCEPT !.done = TRUE,
                            !.result = format_rows(call.title, call.rows, call.max_rows)]
    /\ UNCHANGED mainvars

NextFormat == CallFormatRows

SpecFormat == InitFormat /\ [][NextFormat]_vars

\* keys and values of the payload entries tried: for every record field some
\* entries have one of its candidate keys and some have none
EntryKeys == {"symbol", "Security", "DealDate", "Quantity", "Price", "SellerName"}
EntryValues == { JStr(<< " ","v" >>), JStr(<< >>), JNum(5), Null }
Entries == UNION { [D -> EntryValues] : D \in SUBSET EntryKeys }

InitNormalize ==
    /\ MainIdle
    /\ \E item \in Entries, ex \in {"NSE", "BSE"}, day \in TodayVals :
          call = [fn |-> "normalize", exchange |-> ex, item |-> item, as_on |-> day,
                  done |-> FALSE, result |-> Return(<< >>)]

\* parse_json_rows on a payload whose data list holds the entry and a non-mapping
CallParseJsonRows ==
    /\ ~call.done /\ call.exchange = "NSE"
    /\ call' = [call EXCEPT !.done = TRUE,
                    !.result = parse_json_rows(
                        JDict([data |-> JList(<< JNum(5), JDict(call.item) >>)]),
                        T_NSE, Upper(T_bulk))]
    /\ UNCHANGED mainvars

\* fetch_bse_deals' normalisation of a payload whose Table holds the entry and a non-mapping
CallBsePayloadRows ==
    /\ ~call.done /\ call.exchange = "BSE"
    /\ call' = [call EXCEPT !.done = TRUE,
                    !.result = bse_payload_rows(
                        JDict([Table |-> JList(<< JNum(5), JDict(call.item) >>)]),
                        Upper(T_block), call.as_on)]
    /\ UNCHANGED mainvars

NextNormalize == CallParseJsonRows \/ CallBsePayloadRows

SpecNormalize == InitNormalize /\ [][NextNormalize]_vars

-----------------------------------------------------------------------------
(* Properties *)

Blank(s) == \A i \in 1..Len(s) : IsSpace(s[i])

\* a required credential is unset, empty or all whitespace
RequiredMissing ==
    \/ Blank(Getenv(env, "TELEGRAM_BOT_TOKEN", << >>))
    \/ Blank(Getenv(env, "TELEGRAM_CHAT_ID", << >>))

LastEp == IF netlog = << >> THEN "none" ELSE netlog[Len(netlog)].ep
Asks(eps) == Cardinality({ i \in 1..Len(netlog) : netlog[i].ep \in eps })
HasNote(prefix) == \E i \in 1..Len(notes) : notes[i][1] = prefix

NseDealEps == { NseCandidates[i].ep : i \in 1..Len(NseCandidates) }
BseDealEps == { BseCandidates[i].ep : i \in 1..Len(BseCandidates) }
BseSymbolEps == { BseSymbolUrls[i] : i \in 1..Len(BseSymbolUrls) }

Finished == pc \in {"exited", "crashed"}
Sent == Finished /\ LastEp = "telegram_sendMessage"
DeliveryOk(r) == r.t = "json" /\ r.json.t = "dict" /\ Get(r.json, "ok") = JBool(TRUE)

\* the query failed: transport error, or a body that is no JSON mapping
QueryFailed(r) == r.t \in {"neterr", "badjson"} \/ (r.t = "json" /\ r.json.t # "dict")

(* C1: when TELEGRAM_BOT_TOKEN or TELEGRAM_CHAT_ID is missing or blank after
   stripping, the run can only go from its start to the exit with code 2,
   and no network request is ever issued. *)
C1_MissingCredentialsExit2NoNetwork ==
    RequiredMissing =>
        /\ netlog = << >>
        /\ pc \in {"start", "exited"}
        /\ pc = "start" => exit_code = {} /\ ENABLED CheckConfig
        /\ pc = "exited" => exit_code = {2}

\* a whitespace-only token has led to exit code 2
C1_Witness ==
    /\ pc = "exited" /\ exit_code = {2}
    /\ "TELEGRAM_BOT_TOKEN" \in DOMAIN env /\ env["TELEGRAM_BOT_TOKEN"] # << >>
    /\ Blank(env["TELEGRAM_BOT_TOKEN"])

(* C2: with the required configuration present, a run that has ended has
   issued the Telegram request exactly once, whatever the optional
   configuration values are; it ended with exit code 0 if the delivery
   succeeded, and abnormally only if the delivery failed. *)
C2_OnlyDeliveryAborts ==
    (~RequiredMissing /\ Finished) =>
        /\ Asks({"telegram_sendMessage"}) = 1
        /\ DeliveryOk(resp) => pc = "exited" /\ exit_code = {0}
        /\ pc = "crashed" => ~DeliveryOk(resp)

(* C3: a deal query that fails (transport error, body that is not JSON, or
   JSON that is no mapping) adds no warning and does not end the fetch of
   its exchange: the loop goes on to the next candidate, or the fetch
   returns after the last one. *)
C3_FailedQueryNeverAbortsFetch ==
    /\ (LastEp \in NseDealEps /\ QueryFailed(resp)) =>
          /\ ~HasNote(T_NseWarning)
          /\ pc = "nse_deals" \/ LastEp = NseCandidates[Len(NseCandidates)].ep
    /\ (LastEp \in BseDealEps /\ QueryFailed(resp)) =>
          /\ ~HasNote(T_BseWarning)
          /\ pc = "bse_deals" \/ LastEp = BseCandidates[Len(BseCandidates)].ep

\* the rows of section `title` in the sent message match the first rows of rs
SectionShows(title, rs) ==
    \E k \in 1..Len(message) :
        /\ message[k] = << title >>
        /\ \A i \in 1..Len(rs) : i <= max_rows => message[k + i] = RowLine(rs[i])

\* the EQUITY_L.csv download or the BSE scrip list is unreachable or unparseable
NseUniverseDown ==
    LastEp = "nse_equity_csv" /\ (resp.t = "neterr" \/ (resp.t = "csv" /\ resp.csv = CsvHtml))
BseUniverseDown == LastEp \in BseSymbolEps /\ QueryFailed(resp)

NoDup(rs) == \A i, j \in 1..Len(rs) : rs[i] = rs[j] => i = j

(* C5: the rows handed to the formatter, for NSE and for BSE, never hold two
   records with the same full field tuple. *)
C5_NoDuplicateRows == NoDup(nse_rows) /\ NoDup(bse_rows)

T_abc == << "a","b","c" >>

(* C8 as stated: the symbol of every record handed to the formatter is in
   upper case. *)
C8_SymbolsUppercased ==
    \A i \in 1..Len(nse_rows) : nse_rows[i].symbol = Upper(nse_rows[i].symbol)

(* C8 as amended: a record keeps the symbol text of its source entry,
   stripped and in its own case; it passes the filter when the uppercased
   symbol is in the universe.  The entry with symbol " abc" is therefore in
   the NSE rows as "abc" and rendered so, and records whose uppercased symbol
   is outside a non-empty universe are excluded. *)
C8_SymbolKeptMatchedUppercased ==
    /\ nse_sme # {} => \A i \in 1..Len(nse_rows) : Upper(nse_rows[i].symbol) \in nse_sme
    /\ ( /\ LastEp = NseCandidates[Len(NseCandidates)].ep
         /\ resp \in { Body(NsePayloadA), Body(NsePayloadB) }
         /\ nse_sme \in { {}, { Upper(T_abc) } } ) =>
          \E i \in 1..Len(nse_rows) :
              /\ nse_rows[i].symbol = T_abc
              /\ nse_rows[i].quantity = << "5","0","0" >>
    /\ Sent => SectionShows(T_NSE, nse_rows)

\* universe {"ABC"}: the row for "abc" is rendered with symbol "abc", none for "XYZ"
C8_Witness ==
    /\ Sent /\ exit_code = {0} /\ nse_sme = { Upper(T_abc) } /\ max_rows >= 1
    /\ Len(nse_rows) >= 1 /\ nse_rows[1].symbol = T_abc
    /\ message[4][6] = T_abc
    /\ \A i \in 1..Len(nse_rows) : nse_rows[i].symbol # << "X","Y","Z" >>

-----------------------------------------------------------------------------
(* Properties of filter_sme, checked under SpecFilter *)

\* the indexes of the records whose uppercased symbol is in the universe
Qualifying(rs, symbols) == { i \in 1..Len(rs) : Upper(rs[i].symbol) \in symbols }

(* C6: with an empty universe filter_sme returns exactly the input records,
   in the same order. *)
C6_EmptyUniverseIdentity ==
    (call.done /\ call.symbols = {}) => call.result = call.rows

\* filter_sme has returned a list of two or more records under the empty universe
C6_Witness == call.done /\ call.symbols = {} /\ Len(call.result) >= 2

(* C7: with a non-empty universe the output of filter_sme is the subsequence
   of the input records whose uppercased symbol is in the universe: the k-th
   qualifying input record is the k-th output record, and there is no other. *)
C7_NonEmptyUniverseExactSubsequence ==
    (call.done /\ call.symbols # {}) =>
        LET q == Qualifying(call.rows, call.symbols)
        IN  /\ Len(call.result) = Cardinality(q)
            /\ \A i \in q : call.result[Cardinality({ j \in q : j <= i })] = call.rows[i]

\* a lower-case symbol was kept and another record was dropped
C7_Witness ==
    /\ call.done /\ call.symbols # {}
    /\ Len(call.result) >= 1 /\ Len(call.result) < Len(call.rows)
    /\ \E i \in 1..Len(call.result) : call.result[i].symbol = << "a","b" >>

-----------------------------------------------------------------------------
(* Property of format_rows, checked under SpecFormat *)

IsRowLine(line) == Len(line) = 10 /\ line[1] = T_RowPrefix

(* C9: format_rows gives, for no records, the title and one no-deals line;
   otherwise the title, one line per record for the first records up to the
   maximum, and, when there are more records than the maximum, a last line
   whose count is total - max and is the number of records not shown. *)
C9_OverflowCountIsRowsNotShown ==
    call.done =>
        LET rs == call.rows
            n == call.max_rows
            res == call.result
            shown == Cardinality({ i \in 1..Len(res) : IsRowLine(res[i]) })
        IN  IF rs = << >> THEN res = << << call.title >>, << T_NoDeals >> >>
            ELSE /\ res[1] = << call.title >>
                 /\ \A i \in 1..shown : res[1 + i] = RowLine(rs[i])
                 /\ Len(rs) <= n => shown = Len(rs) /\ Len(res) = 1 + shown
                 /\ Len(rs) > n =>
                       /\ Len(res) = shown + 2
                       /\ res[Len(res)] = << T_AndPrefix, IntText(Len(rs) - n), T_More >>
                       /\ Len(rs) - n = Len(rs) - shown

-----------------------------------------------------------------------------
(* Properties of the normalisation, checked under SpecNormalize *)

Lacks(item, keys) == \A i \in 1..Len(keys) : keys[i] \notin DOMAIN item

FieldKeys(ex) == IF ex = "NSE" THEN NseFieldKeys ELSE BseFieldKeys

\* the one record built from the entry
Built == call.result.val[1]

(* C10 as stated: a field for which the entry has none of the candidate keys
   is the empty string, on the NSE path and on the BSE path. *)
C10_MissingKeysGiveEmptyString ==
    call.done =>
        \A f \in FieldNames :
            Lacks(call.item, FieldKeys(call.exchange)[f]) => Built[f] = << >>

(* C10 as amended: a field for which the entry has none of the candidate
   keys is the empty string, except the date on the BSE path, which is then
   the ISO date of the queried day. *)
C10_MissingKeysGiveEmptyStringOrQueriedDay ==
    call.done =>
        /\ ~call.result.raised /\ Len(call.result.val) = 1
        /\ \A f \in FieldNames :
              Lacks(call.item, FieldKeys(call.exchange)[f]) =>
                  Built[f] = IF call.exchange = "BSE" /\ f = "date"
                             THEN IsoFormat(call.as_on) ELSE << >>

\* a BSE entry with no date key and no symbol key has been normalised
C10_Witness ==
    /\ call.done /\ call.exchange = "BSE"
    /\ Lacks(call.item, BseFieldKeys.date) /\ Lacks(call.item, BseFieldKeys.symbol)
    /\ Built.symbol = << >> /\ Built.date = << "2","0","2","4","-","0","3","-","0","1" >>

====
